---------------------------- MODULE Spec2Model ----------------------------
(***************************************************************************)
(* Query-execution lifecycle of the student-datalake gateways.             *)
(*                                                                         *)
(* Three handlers are modelled, one per source file:                       *)
(*   index.py            handler                (variant "index")          *)
(*   athena_query.py     lambda_handler         (variant "athena")         *)
(*   lambda_enhanced.py  lambda_handler         (variant "enhanced")       *)
(*                                                                         *)
(* One behaviour is one invocation of one handler against a                *)
(* nondeterministic engine (Athena): every engine call either returns or   *)
(* raises a ClientError, every status check takes some latency.            *)
(*                                                                         *)
(* Text is a sequence of tokens: a keyword, a word, a punctuation mark or  *)
(* one whitespace character.  Time is counted in ticks of 1/8 second, the  *)
(* grain in which 1.5, 2.25 and 3.375 seconds are whole numbers.           *)
(***************************************************************************)
EXTENDS Integers, Sequences, FiniteSets, TLC

(***************************************************************************)
(* Bounds of the model.                                                    *)
(***************************************************************************)
\* largest valid deadline (seconds) a request of the model carries
MaxDeadline == 3
\* largest number of items of a batch request
MaxBatch == 2

(***************************************************************************)
(* Program constants.                                                      *)
(***************************************************************************)
\* validate_query: len(query) > 262144
MaxQuerySize == 262144
\* lambda_handler: max_wait_time < 1
MinWaitTime == 1
\* lambda_handler: max_wait_time > 900
MaxWaitTime == 900
\* wait_for_query_completion: min(poll_interval * 1.5, 5), seconds
PollCapSeconds == 5
\* wait_for_query_completion: poll_interval = 1, seconds
PollStartSeconds == 1

\* ticks per second: 1.5^k seconds, k <= 3, are whole numbers of ticks
TicksPerSecond == 2 * 2 * 2

Min(a, b) == IF a < b THEN a ELSE b

(***************************************************************************)
(* Text: token sequences.                                                  *)
(***************************************************************************)
\* the whitespace characters (Python str.strip() and the regex class \s)
IsSpace(t) == t \in {"SP", "NL"}

\* number of characters of a token; BLOB is a run of exactly 262144
\* non-whitespace characters that contains no keyword
CharLen(t) ==
    CASE t = "BLOB" -> MaxQuerySize
      [] OTHER -> 1

RECURSIVE TextLen(_)
\* len(query)
TextLen(s) == IF s = <<>> THEN 0 ELSE CharLen(Head(s)) + TextLen(Tail(s))

RECURSIVE LStrip(_)
LStrip(s) == IF s # <<>> /\ IsSpace(Head(s)) THEN LStrip(Tail(s)) ELSE s

RECURSIVE RStrip(_)
RStrip(s) ==
    IF s # <<>> /\ IsSpace(s[Len(s)]) THEN RStrip(SubSeq(s, 1, Len(s) - 1)) ELSE s

\* str.strip()
Strip(s) == RStrip(LStrip(s))

\* re.IGNORECASE: the upper-case form of a keyword token
Upper(t) ==
    CASE t = "drop" -> "DROP"
      [] t = "database" -> "DATABASE"
      [] t = "grant" -> "GRANT"
      [] t = "exec" -> "EXEC"
      [] OTHER -> t

\* regex  A\s+  : keyword A followed by at least one whitespace character
MatchKwSpace(s, a) ==
    \E i \in 1..(Len(s) - 1) : Upper(s[i]) = a /\ IsSpace(s[i + 1])

\* regex  A\s+B  : A, one or more whitespace characters, B
MatchKwSpaceKw(s, a, b) ==
    \E i \in 1..Len(s) : \E j \in (i + 2)..Len(s) :
        /\ Upper(s[i]) = a
        /\ Upper(s[j]) = b
        /\ \A k \in (i + 1)..(j - 1) : IsSpace(s[k])

\* regex  A.*B  : A, any characters but a newline, B
MatchKwAnyKw(s, a, b) ==
    \E i \in 1..Len(s) : \E j \in (i + 1)..Len(s) :
        /\ Upper(s[i]) = a
        /\ Upper(s[j]) = b
        /\ \A k \in (i + 1)..(j - 1) : s[k] # "NL"

\* regex  DROP\s+TABLE.*CASCADE
MatchDropTableCascade(s) ==
    \E i \in 1..Len(s) : \E j \in (i + 2)..Len(s) : \E m \in (j + 1)..Len(s) :
        /\ Upper(s[i]) = "DROP"
        /\ Upper(s[j]) = "TABLE"
        /\ Upper(s[m]) = "CASCADE"
        /\ \A k \in (i + 1)..(j - 1) : IsSpace(s[k])
        /\ \A k \in (j + 1)..(m - 1) : s[k] # "NL"

\* dangerous_patterns of athena_query.py, searched in s
DangerousAthena(s) ==
    \/ MatchKwAnyKw(s, ";", "--")
    \/ MatchKwSpaceKw(s, "DROP", "DATABASE")
    \/ MatchDropTableCascade(s)
    \/ MatchKwSpace(s, "TRUNCATE")
    \/ MatchKwSpace(s, "GRANT")
    \/ MatchKwSpace(s, "REVOKE")
    \/ MatchKwSpaceKw(s, "ALTER", "SYSTEM")
    \/ MatchKwSpaceKw(s, "CREATE", "ROLE")
    \/ MatchKwSpaceKw(s, "EXECUTE", "AS")

\* dangerous_patterns of lambda_enhanced.py: the same and EXEC\s+
DangerousEnhanced(s) == DangerousAthena(s) \/ MatchKwSpace(s, "EXEC")

(***************************************************************************)
(* Values of the request body's query field: a string (kind "str", its     *)
(* tokens in toks), absent (kind "none") or a JSON number (kind "num").    *)
(***************************************************************************)
Str(toks) == [kind |-> "str", toks |-> toks]
NoValue == [kind |-> "none", toks |-> <<>>]
NumValue == [kind |-> "num", toks |-> <<>>]

\* Python truthiness of a query value: None and "" are falsy; the number
\* of the model is non-zero
Truthy(q) == (q.kind = "str" /\ q.toks # <<>>) \/ q.kind = "num"

\* validate_query of lambda_enhanced.py: TRUE when the query is accepted
validate_query(q) ==
    /\ Truthy(q)
    /\ q.kind = "str"
    /\ TextLen(Strip(q.toks)) <= MaxQuerySize
    /\ ~DangerousEnhanced(Strip(q.toks))

\* validate_query of athena_query.py
validate_query_athena(q) ==
    /\ Truthy(q)
    /\ q.kind = "str"
    /\ TextLen(Strip(q.toks)) <= MaxQuerySize
    /\ ~DangerousAthena(Strip(q.toks))

(***************************************************************************)
(* The template catalog (QUERY_TEMPLATES): its keys, and the text of each  *)
(* entry, which starts and ends with whitespace and holds no keyword of    *)
(* the denylist.                                                           *)
(***************************************************************************)
TemplateNames ==
    {"gpa_by_platform", "gpa_vs_hours", "gpa_distribution",
     "sleep_vs_stress", "sleep_by_day", "stress_distribution",
     "platform_usage", "platform_popularity", "weekly_pattern",
     "mental_health_correlation", "mental_health_by_platform",
     "summary_stats"}

QUERY_TEMPLATES(name) == Str(<<"NL", "SP", "SELECT", "SP", name, "NL", "SP">>)

\* mutant of TemplateText: the text of the request body is taken
TemplateText_mut(query_type) == [kind |-> "str", toks |-> <<"SELECT", "SP", "1">>]

\* handle_template_query: query = QUERY_TEMPLATES[query_type]
TemplateText(query_type) == QUERY_TEMPLATES(query_type)

(***************************************************************************)
(* The engine.                                                             *)
(***************************************************************************)
\* Status.State values of get_query_execution
EngineStates == {"QUEUED", "RUNNING", "SUCCEEDED", "FAILED", "CANCELLED"}

\* Error.Code of a ClientError raised by an engine call
ErrorCodes ==
    {"AccessDeniedException", "ThrottlingException",
     "InternalServerException", "InvalidRequestException"}

\* latency of one status check, in ticks: none, 1/8 second, 2 seconds
Latencies == {0, 1, 2 * TicksPerSecond}

\* Status.StateChangeReason of a terminal status: "" when the engine
\* supplies none
Reasons == {"", "reason"}

\* exceptions other than a ClientError that an engine call raises: a
\* KeyError for a response without QueryExecutionId, a BotoCoreError of the
\* transport; type(e).__name__ and str(e)
InternalErrors ==
    { [type |-> "KeyError", text |-> "m1"],
      [type |-> "KeyError", text |-> "m2"],
      [type |-> "BotoCoreError", text |-> "m1"] }

(***************************************************************************)
(* Responses and the except chains of the three handlers.                  *)
(***************************************************************************)
NoRows == <<>>

\* format_response(status_code, body), the body fields the model keeps:
\* message is the text of an exception or of the engine that the body
\* carries ("" when its text is fixed), type the name of an exception type
Response(code, kind, error, state, rows, results) ==
    [statusCode |-> code, kind |-> kind, error |-> error, state |-> state,
     rows |-> rows, message |-> "", type |-> "",
     rowCount |-> Len(rows), results |-> results,
     totalQueries |-> Len(results),
     successfulQueries |-> Cardinality({k \in DOMAIN results : results[k].success}),
     queryTypes |-> {}, categories |-> <<>>]

NoResponse == Response(0, "none", "", "", NoRows, <<>>)

ErrorResponse(code, error) == Response(code, "error", error, "", NoRows, <<>>)

\* index.py handler, except ClientError: status by Error.Code
ClientErrorStatus(code) ==
    CASE code = "InvalidRequestException" -> 400
      [] code = "AccessDeniedException" -> 403
      [] code = "ThrottlingException" -> 429
      [] code = "InternalServerException" -> 503
      [] OTHER -> 500

\* index.py handler: the except chain, in its order
IndexExcept(exc, code) ==
    CASE exc = "TimeoutError" -> ErrorResponse(408, "Query timeout")
      [] exc = "ClientError" -> ErrorResponse(ClientErrorStatus(code), "ClientError")
      [] exc = "JSONDecodeError" -> ErrorResponse(400, "Invalid JSON")
      [] exc = "ValueError" -> ErrorResponse(400, "Invalid parameter")
      [] OTHER -> ErrorResponse(500, "Unexpected error")

\* athena_query.py lambda_handler: the except chain, in its order; a
\* ClientError is no BotoCoreError and falls to except Exception
AthenaExcept(exc, code) ==
    CASE exc = "JSONDecodeError" -> ErrorResponse(400, "Invalid JSON")
      [] exc = "ValueError" -> ErrorResponse(400, "Invalid request")
      [] exc = "TimeoutError" -> ErrorResponse(408, "Query timeout")
      [] exc = "RuntimeError" -> ErrorResponse(400, "Query execution failed")
      [] exc = "BotoCoreError" -> ErrorResponse(500, "Service error")
      [] OTHER -> ErrorResponse(500, "Internal server error")

\* mutant of EnhancedExcept: a TimeoutError is answered as an execution
\* failure is
EnhancedExcept_mut(exc, code) ==
    IF exc = "TimeoutError" THEN ErrorResponse(400, "Query execution failed")
    ELSE AthenaExcept(exc, code)

\* lambda_enhanced.py lambda_handler: the except chain, in its order
EnhancedExcept(exc, code) ==
    CASE exc = "JSONDecodeError" -> ErrorResponse(400, "Invalid JSON")
      [] exc = "ValueError" -> ErrorResponse(400, "Invalid request")
      [] exc = "TimeoutError" -> ErrorResponse(408, "Query timeout")
      [] exc = "RuntimeError" -> ErrorResponse(400, "Query execution failed")
      [] exc = "BotoCoreError" -> ErrorResponse(500, "Service error")
      [] OTHER -> ErrorResponse(500, "Internal server error")

\* mutant of ExceptResponse: no except Exception at the end of the chains,
\* an exception of a type the chain does not name leaves the handler
ExceptResponse_mut(v, exc, code) ==
    IF exc \in {"KeyError", "AttributeError"} THEN NoResponse
    ELSE IF v = "index" THEN IndexExcept(exc, code)
    ELSE EnhancedExcept(exc, code)

\* the response a handler gives for an exception raised inside its try
ExceptResponse(v, exc, code) ==
    CASE v = "index" -> IndexExcept(exc, code)
      [] v = "athena" -> AthenaExcept(exc, code)
      [] OTHER -> EnhancedExcept(exc, code)

\* the exception types a handler's except chain names before except Exception
NamedExceptions(v) ==
    IF v = "index"
    THEN {"TimeoutError", "ClientError", "JSONDecodeError", "ValueError"}
    ELSE {"JSONDecodeError", "ValueError", "TimeoutError", "RuntimeError",
          "BotoCoreError"}

\* 'message': str(e) in the body: every branch of index.py; the branches of
\* the others but except BotoCoreError and except Exception, whose message
\* is a fixed text
CarriesMessage(v, exc) ==
    v = "index" \/ exc \in NamedExceptions(v) \ {"BotoCoreError"}

\* 'type': type(e).__name__ in the body of except Exception
CarriesType(v, exc) == exc \notin NamedExceptions(v)

\* the response for exception exc with text str(e) = text, body included
Caught(v, exc, code, text) ==
    [ExceptResponse(v, exc, code) EXCEPT
        !.message = IF CarriesMessage(v, exc) THEN text ELSE "",
        !.type = IF CarriesType(v, exc) THEN exc ELSE ""]

(***************************************************************************)
(* The poller's arithmetic.                                                *)
(***************************************************************************)
\* poll_interval = min(poll_interval * 1.5, 5), in ticks; the halving is
\* exact for every interval the poller reaches below the cap
NextInterval(p) == Min((p * 3) \div 2, PollCapSeconds * TicksPerSecond)

\* elapsed = int(time.time() - start_time), seconds
ElapsedSeconds(t) == t \div TicksPerSecond

\* lambda_enhanced.py, athena_query.py: remaining = max_wait_time - elapsed;
\* if remaining < poll_interval: poll_interval = remaining (ticks)
ClampInterval(p, d, t) ==
    IF (d - ElapsedSeconds(t)) * TicksPerSecond < p
    THEN (d - ElapsedSeconds(t)) * TicksPerSecond
    ELSE p

\* the duration passed to time.sleep after a non-terminal observation
SleepInterval(v, p, d, t) ==
    IF v = "index" THEN NextInterval(p) ELSE ClampInterval(NextInterval(p), d, t)

\* mutant of WithinDeadline: the loop goes on at the deadline itself,
\* while time.time() - start_time <= max_wait_time
WithinDeadline_mut(t, d) == t <= d * TicksPerSecond

\* while time.time() - start_time < max_wait_time
WithinDeadline(t, d) == t < d * TicksPerSecond

(***************************************************************************)
(* The result normalizer.  A page is [cols, rows]: the column names of     *)
(* ResultSetMetadata.ColumnInfo and the Rows, the header row first; a row  *)
(* is its Data, a sequence of cells; a cell is a VarCharValue (a string)   *)
(* or carries none (null).  A parsed row is a function from key to cell.   *)
(***************************************************************************)
Cell(toks) == [null |-> FALSE, s |-> toks]
None == [null |-> TRUE, s |-> <<>>]

\* rows[1:] if len(rows) > 0 else []
DataRows(rows) == IF Len(rows) > 0 THEN Tail(rows) ELSE <<>>

\* the last position below n + 1 at which name stands in cols
LastIndex(cols, name, n) ==
    CHOOSE i \in 1..n : cols[i] = name /\ \A j \in (i + 1)..n : cols[j] # name

\* row_dict of get_query_results (lambda_enhanced.py, athena_query.py): one
\* key per column that has a positional value, a later duplicate overwrites
ParseRow(cols, data) ==
    LET n == Min(Len(data), Len(cols)) IN
    [c \in {cols[i] : i \in 1..n} |-> data[LastIndex(cols, c, n)]]

\* get_query_results of lambda_enhanced.py and athena_query.py
get_query_results(page) ==
    [columnMetadata |-> page.cols,
     rows |-> [k \in 1..Len(DataRows(page.rows)) |->
                  ParseRow(page.cols, DataRows(page.rows)[k])]]

\* row_data of index.py: .get('VarCharValue', '') turns a missing value
\* into the empty string
ParseRowIndex(cols, data) ==
    LET n == Min(Len(data), Len(cols)) IN
    [c \in {cols[i] : i \in 1..n} |->
        IF data[LastIndex(cols, c, n)].null THEN Cell(<<>>)
        ELSE data[LastIndex(cols, c, n)]]

\* get_query_results of index.py
get_query_results_index(page) ==
    IF page.cols = <<>> THEN [columnMetadata |-> <<>>, rows |-> <<>>]
    ELSE [columnMetadata |-> page.cols,
          rows |-> [k \in 1..Len(DataRows(page.rows)) |->
                       ParseRowIndex(page.cols, DataRows(page.rows)[k])]]

\* sanitize_value: the values of a parsed row are strings or None
sanitize_value(c) == IF c.null THEN None ELSE Cell(Strip(c.s))

\* columns.index(col): the first position of an equal column, from 0
FirstIndex(cols, name) ==
    (CHOOSE i \in 1..Len(cols) : cols[i] = name /\ \A j \in 1..(i - 1) : cols[j] # name) - 1

\* sanitize_results of lambda_enhanced.py: col.get('Name', f'col_{index}')
\* reads the key 'Name' of a column dict whose key is 'name', so the row is
\* keyed by the defaults col_0, col_1, ...
SanitizeKey(cols, name) == "col_" \o ToString(FirstIndex(cols, name))

sanitize_results(rows, cols) ==
    [k \in 1..Len(rows) |->
        [n \in {SanitizeKey(cols, cols[i]) : i \in 1..Len(cols)} |->
            sanitize_value(IF n \in DOMAIN rows[k] THEN rows[k][n] ELSE None)]]

\* the rows of the outcome each orchestrator returns for a fetched page
OutcomeRows(v, page) ==
    CASE v = "index" -> get_query_results_index(page).rows
      [] v = "athena" -> get_query_results(page).rows
      [] OTHER -> sanitize_results(get_query_results(page).rows,
                                   get_query_results(page).columnMetadata)

\* no page was fetched
NoPage == [cols |-> <<>>, rows |-> <<>>, fetched |-> FALSE]

\* page as the record of a lifecycle keeps it
Fetched(page) == [cols |-> page.cols, rows |-> page.rows, fetched |-> TRUE]

\* result pages the engine of the model serves
Pages ==
    { [cols |-> <<"H1", "H2">>,
       rows |-> << <<Cell(<<"H1">>), Cell(<<"H2">>)>>,
                   <<Cell(<<"a">>), Cell(<<"b">>)>>,
                   <<Cell(<<"c">>), Cell(<<"d">>)>> >>],
      [cols |-> <<"H1", "H2">>,
       rows |-> << <<Cell(<<"H1">>), Cell(<<"H2">>)>>,
                   <<Cell(<<"SP", "a", "SP">>)>> >>],
      [cols |-> <<"col_0", "H2">>,
       rows |-> << <<Cell(<<"col_0">>), Cell(<<"H2">>)>>,
                   <<Cell(<<"a">>), None>> >>],
      [cols |-> <<>>, rows |-> <<>>] }

(***************************************************************************)
(* Requests.                                                               *)
(***************************************************************************)
\* query texts of the requests of the model
QueryTexts ==
    { <<>>,
      <<"SP">>,
      <<"SELECT", "SP", "1">>,
      <<"SP", "SELECT", "SP", "1", "NL">>,
      <<"drop", "SP", "database", "SP", "x">>,
      <<"DROP", "NL", "SP", "TABLE", "SP", "t", "SP", "CASCADE">>,
      <<"SELECT", "SP", "1", ";", "SP", "--">>,
      <<"SELECT", "SP", "1", ";", "NL", "--">>,
      <<"TRUNCATE", "SP", "t">>,
      <<"REVOKE", "NL", "x">>,
      <<"ALTER", "SP", "SYSTEM">>,
      <<"CREATE", "SP", "SP", "ROLE">>,
      <<"EXECUTE", "SP", "AS", "SP", "x">>,
      <<"exec", "SP", "x">>,
      <<"GRANT", "SP">>,
      <<"BLOB">>,
      <<"BLOB", "x">>,
      <<"SP", "BLOB">> }

\* values of the body's query field
QueryValues == {Str(t) : t \in QueryTexts} \cup {NoValue, NumValue}

\* values of the body's maxWaitTime field (JSON integers)
WaitValues == {-1, 0} \cup (1..MaxDeadline) \cup {MaxWaitTime + 1}

\* items of a batch: [type, query]; type "" is an absent type
BatchItems ==
    { [type |-> "gpa_by_platform", query |-> NoValue],
      [type |-> "no_such_template", query |-> NoValue],
      [type |-> "", query |-> Str(<<"SELECT", "SP", "1">>)],
      [type |-> "", query |-> Str(<<"drop", "SP", "database", "SP", "x">>)],
      [type |-> "", query |-> NoValue],
      [type |-> "", query |-> NumValue],
      [type |-> "", query |-> Str(<<"BLOB", "x">>)] }

RECURSIVE SeqsUpTo(_, _)
\* the sequences over S of length at most n
SeqsUpTo(S, n) ==
    IF n = 0 THEN {<<>>}
    ELSE SeqsUpTo(S, n - 1) \cup
         {Append(q, x) : q \in {r \in SeqsUpTo(S, n - 1) : Len(r) = n - 1}, x \in S}

\* paths, as their segments: "/query/" is <<"query", "">>
Paths ==
    { <<"health">>, <<"queries">>, <<"query">>, <<"query", "">>,
      <<"query", "gpa_by_platform">>, <<"query", "no_such_template">>,
      <<"batch">>, <<"other">> }

Methods == {"GET", "POST", "DELETE"}

\* path in ['/name', '/name/']
PathIs(path, name) == path = <<name>> \/ path = <<name, "">>

\* query_type = path.split('/query/')[-1].strip() if path.startswith('/query/')
PathQueryType(path) ==
    IF Len(path) >= 2 /\ path[1] = "query" THEN path[Len(path)] ELSE ""

Event(m, p, j, q, w, qs) ==
    [method |-> m, path |-> p, json |-> j, query |-> q, maxWaitTime |-> w,
     queries |-> qs]

\* the events of the model: index.py and athena_query.py read the body only
Events(v) ==
    IF v # "enhanced"
    THEN {Event("POST", <<"query">>, TRUE, q, w, <<>>) :
              q \in QueryValues, w \in WaitValues}
         \cup {Event("POST", <<"query">>, FALSE, NoValue, 1, <<>>)}
    ELSE {Event("POST", <<"query">>, TRUE, q, w, <<>>) :
              q \in QueryValues, w \in WaitValues}
         \cup {Event(m, p, TRUE, q, w, <<>>) :
                  m \in Methods, p \in Paths,
                  q \in {NoValue, Str(<<"SELECT", "SP", "1">>)},
                  w \in {0, 1}}
         \cup {Event("POST", <<"batch">>, TRUE, NoValue, w, qs) :
                  w \in {0, 1}, qs \in SeqsUpTo(BatchItems, MaxBatch)}
         \cup {Event("POST", <<"query">>, FALSE, NoValue, 1, <<>>)}

(***************************************************************************)
(* State.                                                                  *)
(***************************************************************************)
VARIABLES
    variant,        \* the handler invoked: "index", "athena" or "enhanced"
    event,          \* its event
    pc,             \* the position of the invocation
    max_wait_time,  \* the deadline d the handler parsed, seconds
    itemIdx,        \* the batch item being evaluated, 0 outside a batch
    cur,            \* the record of the query lifecycle under way
    now,            \* time.time() - start_time of the poller, ticks
    poll_interval,  \* the poller's poll_interval, ticks
    itemLog,        \* the records of the lifecycles that ended
    results,        \* results of handle_batch_queries
    resp,           \* the response returned, NoResponse before
    answers,        \* what the engine answered the invocation, in order;
                    \* kept while other invocations are present
    module,         \* the module-level names: configuration and catalog
    issued,         \* the number of execution handles the engine issued
    suspended       \* the other invocations under way, each as its Context

vars ==
    <<variant, event, pc, max_wait_time, itemIdx, cur, now, poll_interval,
      itemLog, results, resp, answers, module, issued, suspended>>

\* the module-level names after import: the configuration read from the
\* environment and the keys of QUERY_TEMPLATES
Imported ==
    [DATABASE_NAME |-> "DATABASE_NAME", RESULTS_PATH |-> "RESULTS_PATH",
     MAX_WAIT_TIME |-> "MAX_WAIT_TIME", QUERY_TEMPLATES |-> TemplateNames]

\* mutant of Lookup: QUERY_TEMPLATES.pop(query_type), which takes the entry
\* out of the catalog
Lookup_mut(m, query_type) ==
    [m EXCEPT !.QUERY_TEMPLATES = @ \ {query_type}]

\* the module-level names after query = QUERY_TEMPLATES[query_type]: a
\* subscription leaves the catalog as it is
Lookup(m, query_type) == m

\* the local state of the invocation that is running
Context ==
    [variant |-> variant, event |-> event, pc |-> pc,
     max_wait_time |-> max_wait_time, itemIdx |-> itemIdx, cur |-> cur,
     now |-> now, poll_interval |-> poll_interval, itemLog |-> itemLog,
     results |-> results, resp |-> resp, answers |-> answers]

\* an answer of the engine: to op ("start", "check" or "fetch") it gave r
\* (a state, "ok" or the code or type of an error) after lat ticks, with
\* StateChangeReason why or the page of a results fetch
Answer(op, r, lat, why, page) ==
    [op |-> op, r |-> r, lat |-> lat, why |-> why, page |-> page]

\* answers once the engine gave answer a
Heard(a) == IF suspended = <<>> THEN answers ELSE Append(answers, a)

\* the record of one lifecycle: the text and handle of the execution, the
\* engine calls made for it (asked: the handles they were made with), what
\* the poller observed (obs, and reason, the StateChangeReason of a terminal
\* status) and how it ended (exc, and msg, the text of the exception)
NewLog(text) ==
    [text |-> text, handle |-> 0, starts |-> 0, checks |-> 0, nonterm |-> 0,
     fetches |-> 0, obs |-> "none", err |-> "none", errOp |-> "none",
     sleeps |-> 0, firstSleep |-> 0, lastSleep |-> 0, lastLatency |-> 0,
     stopAt |-> -1, exc |-> "none", reason |-> "", msg |-> "",
     page |-> NoPage, asked |-> {}]

\* what itemLog keeps of the record of a lifecycle that ended
Summary(c) ==
    [text |-> c.text, handle |-> c.handle, starts |-> c.starts,
     fetches |-> c.fetches, obs |-> c.obs, err |-> c.err, errOp |-> c.errOp,
     exc |-> c.exc]

Init ==
    /\ variant \in {"index", "athena", "enhanced"}
    /\ event \in Events(variant)
    /\ pc = "start"
    /\ max_wait_time = 0
    /\ itemIdx = 0
    /\ cur = NewLog(NoValue)
    /\ now = 0
    /\ poll_interval = 0
    /\ itemLog = <<>>
    /\ results = <<>>
    /\ resp = NoResponse
    /\ answers = <<>>
    /\ module = Imported
    /\ issued = 0
    /\ suspended = <<>>

(***************************************************************************)
(* Ends of a lifecycle.                                                    *)
(***************************************************************************)
\* mutant of Entry: the entry is tagged with the loop's 0-based i
Entry_mut(i, success, state, error, rows) ==
    [index |-> i - 1, success |-> success, state |-> state, error |-> error,
     rows |-> rows]

\* an entry of results: {'index': i + 1, 'success': ..., **result}
Entry(i, success, state, error, rows) ==
    [index |-> i, success |-> success, state |-> state, error |-> error,
     rows |-> rows]

\* except Exception as e: results.append({index, success: False, error})
FailedEntry(i) == Entry(i, FALSE, "", TRUE, NoRows)

\* the lifecycle ends with record c: outside a batch the handler returns r,
\* inside one handle_batch_queries appends e and goes on
Finish(c, r, e, i) ==
    /\ itemLog' = Append(itemLog, Summary(c))
    /\ cur' = c
    /\ itemIdx' = i
    /\ IF i = 0
       THEN /\ resp' = r
            /\ results' = results
            /\ pc' = "done"
       ELSE /\ resp' = resp
            /\ results' = Append(results, e)
            /\ pc' = "batch"
    /\ UNCHANGED <<variant, event, max_wait_time, module, suspended>>

\* the lifecycle of item i (0 outside a batch) ends by raising exc (with
\* Error.Code code)
Raise(c, exc, code, i) ==
    Finish([c EXCEPT !.exc = exc], Caught(variant, exc, code, c.msg),
           FailedEntry(i), i)

\* the handler returns r before any lifecycle began
Return(r) ==
    /\ resp' = r
    /\ pc' = "done"
    /\ UNCHANGED <<variant, event, max_wait_time, itemIdx, cur, now,
                   poll_interval, itemLog, results, answers, module, issued,
                   suspended>>

\* the handler hands text to its orchestrator with deadline d
Dispatch(text, d, i, to) ==
    /\ pc' = to
    /\ cur' = NewLog(text)
    /\ max_wait_time' = d
    /\ itemIdx' = i
    /\ UNCHANGED <<variant, event, now, poll_interval, itemLog, results, resp,
                   answers, module, issued, suspended>>

\* handle_template_query: the text of template query_type is handed to
\* execute_query
DispatchTemplate(query_type, d, i) ==
    /\ pc' = "exec"
    /\ cur' = NewLog(TemplateText(query_type))
    /\ max_wait_time' = d
    /\ itemIdx' = i
    /\ module' = Lookup(module, query_type)
    /\ UNCHANGED <<variant, event, now, poll_interval, itemLog, results, resp,
                   answers, issued, suspended>>

\* max_wait_time < 1 or max_wait_time > 900
BadWaitTime(w) == w < MinWaitTime \/ w > MaxWaitTime

\* mutant of Categories: the summary category names a template that the
\* catalog does not hold
Categories_mut ==
    [gpa |-> <<"gpa_by_platform", "gpa_vs_hours", "gpa_distribution">>,
     sleep_stress |-> <<"sleep_vs_stress", "sleep_by_day", "stress_distribution">>,
     platform |-> <<"platform_usage", "platform_popularity", "weekly_pattern">>,
     mental_health |-> <<"mental_health_correlation", "mental_health_by_platform">>,
     summary |-> <<"summary">>]

\* the 'categories' literal of the GET /queries response
Categories ==
    [gpa |-> <<"gpa_by_platform", "gpa_vs_hours", "gpa_distribution">>,
     sleep_stress |-> <<"sleep_vs_stress", "sleep_by_day", "stress_distribution">>,
     platform |-> <<"platform_usage", "platform_popularity", "weekly_pattern">>,
     mental_health |-> <<"mental_health_correlation", "mental_health_by_platform">>,
     summary |-> <<"summary_stats">>]

\* the GET /queries response: queryTypes is list(QUERY_TEMPLATES.keys()),
\* every key once, kept as the set of its elements
Listing(m) ==
    [Response(200, "queries", "", "", NoRows, <<>>)
        EXCEPT !.queryTypes = m.QUERY_TEMPLATES, !.categories = Categories]

\* mutant of InvalidMaxWaitTime: the deadline is validated only on the
\* routes that run a query
InvalidMaxWaitTime_mut(e) ==
    /\ BadWaitTime(e.maxWaitTime)
    /\ e.method \in {"POST", "GET"}
    /\ \/ PathIs(e.path, "batch")
       \/ PathIs(e.path, "query")
       \/ PathQueryType(e.path) # ""

\* lambda_enhanced.py lambda_handler, the validation of max_wait_time: it
\* stands after the health check and before every route, and reads nothing
\* of the request but maxWaitTime
InvalidMaxWaitTime(e) == BadWaitTime(e.maxWaitTime)

(***************************************************************************)
(* The handlers.                                                           *)
(***************************************************************************)
\* index.py handler, to the start of the query execution
handler ==
    /\ pc = "start"
    /\ variant = "index"
    /\ IF ~event.json
       THEN Return(Caught("index", "JSONDecodeError", "", ""))
       ELSE IF event.query.kind = "num"
       THEN Return(Caught("index", "AttributeError", "", "no attribute strip"))
       ELSE IF Strip(event.query.toks) = <<>>
       THEN Return(ErrorResponse(400, "Invalid input"))
       ELSE IF TextLen(Strip(event.query.toks)) > MaxQuerySize
       THEN Return(ErrorResponse(400, "Query too large"))
       ELSE IF BadWaitTime(event.maxWaitTime)
       THEN Return(ErrorResponse(400, "Invalid maxWaitTime"))
       ELSE Dispatch(Str(Strip(event.query.toks)), event.maxWaitTime, 0, "submit")

\* athena_query.py lambda_handler, to the call of execute_athena_query
athena_lambda_handler ==
    /\ pc = "start"
    /\ variant = "athena"
    /\ IF ~event.json
       THEN Return(Caught("athena", "JSONDecodeError", "", ""))
       ELSE IF event.query.kind = "num"
       THEN Return(Caught("athena", "AttributeError", "", "no attribute strip"))
       ELSE IF BadWaitTime(event.maxWaitTime)
       THEN Return(Caught("athena", "ValueError", "", ""))
       ELSE Dispatch(Str(Strip(event.query.toks)), event.maxWaitTime, 0, "exec")

\* lambda_enhanced.py lambda_handler, to the call of a route's function
lambda_handler ==
    /\ pc = "start"
    /\ variant = "enhanced"
    /\ IF ~event.json
       THEN Return(Caught("enhanced", "JSONDecodeError", "", ""))
       ELSE IF event.method = "GET" /\ PathIs(event.path, "health")
       THEN Return(Response(200, "health", "", "", NoRows, <<>>))
       ELSE IF InvalidMaxWaitTime(event)
       THEN Return(Caught("enhanced", "ValueError", "", ""))
       ELSE IF event.method = "POST" /\ PathIs(event.path, "batch")
       THEN IF event.queries = <<>>
            THEN Return(Caught("enhanced", "ValueError", "", ""))
            ELSE /\ pc' = "batch"
                 /\ max_wait_time' = event.maxWaitTime
                 /\ UNCHANGED <<variant, event, itemIdx, cur, now,
                                poll_interval, itemLog, results, resp,
                                answers, module, issued, suspended>>
       ELSE IF event.method \in {"POST", "GET"} /\ PathQueryType(event.path) # ""
       THEN IF PathQueryType(event.path) \notin module.QUERY_TEMPLATES
            THEN Return(Caught("enhanced", "ValueError", "", ""))
            ELSE DispatchTemplate(PathQueryType(event.path),
                                  event.maxWaitTime, 0)
       ELSE IF event.method = "POST" /\ PathIs(event.path, "query")
       THEN IF ~Truthy(event.query)
            THEN Return(Caught("enhanced", "ValueError", "", ""))
            ELSE Dispatch(event.query, event.maxWaitTime, 0, "exec")
       ELSE IF event.method = "GET" /\ PathIs(event.path, "queries")
       THEN Return(Listing(module))
       ELSE Return(Response(404, "notfound", "Not Found", "", NoRows, <<>>))

\* handle_batch_queries, one turn of its loop: item i is handed to
\* handle_template_query or handle_custom_query, or recorded at once
handle_batch_queries ==
    /\ pc = "batch"
    /\ Len(results) < Len(event.queries)
    /\ LET i == Len(results) + 1
           q == event.queries[i]
       IN  IF q.type # ""
           THEN IF q.type \notin module.QUERY_TEMPLATES
                THEN /\ Raise(NewLog(NoValue), "ValueError", "", i)
                     /\ UNCHANGED <<now, poll_interval, answers, issued>>
                ELSE DispatchTemplate(q.type, max_wait_time, i)
           ELSE IF Truthy(q.query)
           THEN Dispatch(q.query, max_wait_time, i, "exec")
           ELSE /\ Finish(NewLog(NoValue), NoResponse, Entry(i, FALSE, "", TRUE, NoRows), i)
                /\ UNCHANGED <<now, poll_interval, answers, issued>>

\* handle_batch_queries, its return, and lambda_handler's 200
batch_return ==
    /\ pc = "batch"
    /\ Len(results) = Len(event.queries)
    /\ resp' = Response(200, "batch", "", "", NoRows, results)
    /\ pc' = "done"
    /\ UNCHANGED <<variant, event, max_wait_time, itemIdx, cur, now,
                   poll_interval, itemLog, results, answers, module, issued,
                   suspended>>

(***************************************************************************)
(* The orchestrator: execute_query, execute_athena_query, and the body of  *)
(* index.py's handler.                                                     *)
(***************************************************************************)
\* is_valid of the orchestrator's validate_query call
IsValid(v, q) ==
    CASE v = "athena" -> validate_query_athena(q)
      [] OTHER -> validate_query(q)

\* execute_query / execute_athena_query: validation
execute_query ==
    /\ pc = "exec"
    /\ IF IsValid(variant, cur.text)
       THEN /\ pc' = "submit"
            /\ UNCHANGED <<variant, event, max_wait_time, itemIdx, cur, now,
                           poll_interval, itemLog, results, resp, answers,
                           module, issued, suspended>>
       ELSE /\ Raise(cur, "ValueError", "", itemIdx)
            /\ UNCHANGED <<now, poll_interval, answers, issued>>

\* mutant of Started: a second call of start_query_execution, a retry
Started_mut(c) == [c EXCEPT !.starts = @ + 2]

\* the one call athena_client.start_query_execution of a lifecycle
Started(c) == [c EXCEPT !.starts = @ + 1]

\* mutant of SinceStartTime: the poller measures from the start of the
\* poller before it
SinceStartTime_mut(t) == t

\* start_time = time.time() at the poller's entry: the time elapsed since
\* start_time is zero then, whatever the clock showed before
SinceStartTime(t) == 0

\* start_query_execution: the engine returns a handle or raises a
\* ClientError, which is raised on, or another exception; the poller's
\* clock starts
start_query_execution ==
    /\ pc = "submit"
    /\ \/ /\ pc' = "poll"
          /\ cur' = [Started(cur) EXCEPT !.handle = issued + 1]
          /\ issued' = issued + 1
          /\ answers' = Heard(Answer("start", "ok", 0, "", NoPage))
          /\ now' = SinceStartTime(now)
          /\ poll_interval' = PollStartSeconds * TicksPerSecond
          /\ UNCHANGED <<variant, event, max_wait_time, itemIdx, itemLog,
                         results, resp, module, suspended>>
       \/ \E code \in ErrorCodes :
            /\ Raise([Started(cur) EXCEPT !.err = code, !.errOp = "start"],
                     "ClientError", code, itemIdx)
            /\ answers' = Heard(Answer("start", code, 0, "", NoPage))
            /\ UNCHANGED <<now, poll_interval, issued>>
       \/ \E e \in InternalErrors :
            /\ Raise([Started(cur) EXCEPT !.err = "Internal",
                                          !.errOp = "start", !.msg = e.text],
                     e.type, "", itemIdx)
            /\ answers' = Heard(Answer("start", e.type, 0, e.text, NoPage))
            /\ UNCHANGED <<now, poll_interval, issued>>

\* mutant of HandlePassed: the handle of the first execution is kept and
\* passed for every later one
HandlePassed_mut(c) == IF c.handle = 0 THEN 0 ELSE 1

\* query_execution_id, the handle the orchestrator passes to the poller and
\* to the results fetch: the one start_query_execution returned
HandlePassed(c) == c.handle

\* mutant of IsTerminal: SUCCEEDED is not taken for a terminal state
IsTerminal_mut(state) == state \in {"FAILED", "CANCELLED"}

\* mutant of IsTerminal: only SUCCEEDED ends the loop, FAILED and CANCELLED
\* are polled on
IsTerminalSucceeded_mut(state) == state = "SUCCEEDED"

\* the terminal states
IsTerminal(state) == state \in {"SUCCEEDED", "FAILED", "CANCELLED"}

\* mutant of PollerReturns: every poller returns the status of every
\* terminal state, as index.py's does
PollerReturns_mut(v, state) == TRUE

\* mutant of PollerReturns: the poller raises for FAILED only and returns
\* the status of a cancelled execution
PollerReturnsCancelled_mut(v, state) ==
    v = "index" \/ state \in {"SUCCEEDED", "CANCELLED"}

\* whether the poller returns the status of a terminal state (index.py
\* returns every one; the others return on SUCCEEDED and raise otherwise)
PollerReturns(v, state) == v = "index" \/ state = "SUCCEEDED"

\* the engine's text in the RuntimeError of the poller: the reason in
\* f"Query execution failed: {reason}", none in "Query was cancelled"
FailureText(state, why) == IF state = "FAILED" THEN why ELSE ""

\* wait_for_query_completion: one turn of the loop, a status check that
\* takes lat ticks and yields r, a state (with StateChangeReason why) or the
\* code of a ClientError
PollStep(lat, r, why) ==
    LET t == now + lat
        c == [cur EXCEPT !.checks = @ + 1, !.lastLatency = lat,
                         !.asked = @ \cup {HandlePassed(cur)},
                         !.reason = IF r \in {"FAILED", "CANCELLED"} THEN why ELSE ""]
        p == SleepInterval(variant, poll_interval, max_wait_time, t)
    IN  /\ now' = t
        /\ answers' = Heard(Answer("check", r, lat, c.reason, NoPage))
        /\ issued' = issued
        /\ IF r \in ErrorCodes
           THEN /\ Raise([c EXCEPT !.err = r, !.errOp = "status", !.stopAt = t],
                         "ClientError", r, itemIdx)
                /\ poll_interval' = poll_interval
           ELSE IF IsTerminal(r)
           THEN IF PollerReturns(variant, r)
                THEN /\ pc' = "polled"
                     /\ cur' = [c EXCEPT !.obs = r, !.stopAt = t]
                     /\ UNCHANGED <<variant, event, max_wait_time, itemIdx,
                                    poll_interval, itemLog, results, resp,
                                    module, suspended>>
                ELSE /\ Raise([c EXCEPT !.obs = r, !.stopAt = t,
                                        !.msg = FailureText(r, why)],
                              "RuntimeError", "", itemIdx)
                     /\ poll_interval' = poll_interval
           ELSE IF p < 0
           THEN /\ Raise([c EXCEPT !.obs = r, !.nonterm = @ + 1, !.stopAt = t],
                         "ValueError", "", itemIdx)
                /\ poll_interval' = p
           ELSE /\ pc' = "sleep"
                /\ cur' = [c EXCEPT !.obs = r, !.nonterm = @ + 1]
                /\ poll_interval' = p
                /\ UNCHANGED <<variant, event, max_wait_time, itemIdx, itemLog,
                               results, resp, module, suspended>>

\* str(e) of the poller's TimeoutError for deadline d, elapsed seconds and
\* execution handle id
TimeoutText(d, elapsed, id) ==
    "Query did not complete within " \o ToString(d) \o " seconds (elapsed: "
        \o ToString(elapsed) \o "s, ID: " \o ToString(id) \o ")"

\* wait_for_query_completion: the loop condition, then a status check or
\* the TimeoutError after the loop
wait_for_query_completion ==
    /\ pc = "poll"
    /\ IF WithinDeadline(now, max_wait_time)
       THEN \E lat \in Latencies : \E r \in EngineStates \cup ErrorCodes :
                \E why \in Reasons : PollStep(lat, r, why)
       ELSE /\ Raise([cur EXCEPT !.stopAt = now,
                                  !.msg = TimeoutText(max_wait_time,
                                                      ElapsedSeconds(now),
                                                      cur.handle)],
                     "TimeoutError", "", itemIdx)
            /\ UNCHANGED <<now, poll_interval, answers, issued>>

\* time.sleep(poll_interval)
sleep ==
    /\ pc = "sleep"
    /\ now' = now + poll_interval
    /\ cur' = [cur EXCEPT !.sleeps = @ + 1,
                          !.firstSleep = IF cur.sleeps = 0 THEN poll_interval ELSE @,
                          !.lastSleep = poll_interval]
    /\ pc' = "poll"
    /\ UNCHANGED <<variant, event, max_wait_time, itemIdx, poll_interval,
                   itemLog, results, resp, answers, module, issued, suspended>>

\* mutant of FetchesFor: results are fetched whatever the state
FetchesFor_mut(v, state) == TRUE

\* mutant of FetchesFor: only FAILED keeps the orchestrator from fetching
FetchesUnlessFailed_mut(v, state) == state # "FAILED"

\* whether the orchestrator fetches results for the state the poller
\* returned: if status['state'] == 'SUCCEEDED' (index.py: neither FAILED
\* nor CANCELLED)
FetchesFor(v, state) ==
    IF v = "index" THEN state \notin {"FAILED", "CANCELLED"} ELSE state = "SUCCEEDED"

\* 'success': 'error' not in result, for the result of a sub-query that
\* returned; such a result has no key 'error'
EntrySuccess(hasError) == ~hasError

\* the orchestrator after the poller returned: the results fetch and the
\* outcome, or the outcome without rows
fetch_results ==
    /\ pc = "polled"
    /\ UNCHANGED <<now, poll_interval, issued>>
    /\ IF FetchesFor(variant, cur.obs)
       THEN \/ \E page \in Pages :
               /\ answers' = Heard(Answer("fetch", "ok", 0, "", Fetched(page)))
               /\ Finish([cur EXCEPT !.fetches = @ + 1, !.page = Fetched(page),
                                     !.asked = @ \cup {HandlePassed(cur)}],
                        Response(200, "query", "", cur.obs,
                                 OutcomeRows(variant, page), <<>>),
                        Entry(itemIdx, EntrySuccess(FALSE), cur.obs, FALSE,
                              OutcomeRows(variant, page)),
                        itemIdx)
            \/ \E code \in ErrorCodes :
               /\ answers' = Heard(Answer("fetch", code, 0, "", NoPage))
               /\ Raise([cur EXCEPT !.fetches = @ + 1, !.err = code, !.errOp = "fetch",
                                    !.asked = @ \cup {HandlePassed(cur)}],
                        "ClientError", code, itemIdx)
       ELSE IF variant = "index"
       THEN /\ answers' = answers
            /\ Finish(cur,
                   [Response(400, "error",
                             IF cur.obs = "FAILED" THEN "Query execution failed"
                             ELSE "Query was cancelled",
                             cur.obs, NoRows, <<>>)
                       EXCEPT !.message = FailureText(cur.obs, cur.reason)],
                   FailedEntry(itemIdx), itemIdx)
       ELSE /\ answers' = answers
            /\ Finish(cur, Response(200, "query", "", cur.obs, NoRows, <<>>),
                      Entry(itemIdx, EntrySuccess(FALSE), cur.obs, FALSE, NoRows),
                      itemIdx)

Next ==
    \/ handler
    \/ athena_lambda_handler
    \/ lambda_handler
    \/ handle_batch_queries
    \/ batch_return
    \/ execute_query
    \/ start_query_execution
    \/ wait_for_query_completion
    \/ sleep
    \/ fetch_results

Spec == Init /\ [][Next]_vars

(***************************************************************************)
(* Invocations that run at the same time against the same engine: each     *)
(* has its own local state, and all share the module-level names and the   *)
(* engine.                                                                 *)
(***************************************************************************)
\* the invocation that runs is suspended and suspended invocation k runs
switch ==
    \E k \in DOMAIN suspended :
        /\ suspended' = [suspended EXCEPT ![k] = Context]
        /\ variant' = suspended[k].variant
        /\ event' = suspended[k].event
        /\ pc' = suspended[k].pc
        /\ max_wait_time' = suspended[k].max_wait_time
        /\ itemIdx' = suspended[k].itemIdx
        /\ cur' = suspended[k].cur
        /\ now' = suspended[k].now
        /\ poll_interval' = suspended[k].poll_interval
        /\ itemLog' = suspended[k].itemLog
        /\ results' = suspended[k].results
        /\ resp' = suspended[k].resp
        /\ answers' = suspended[k].answers
        /\ UNCHANGED <<module, issued>>

\* the events of invocations that run at the same time
ConcurrentEvents(v) ==
    IF v # "enhanced"
    THEN {Event("POST", <<"query">>, TRUE, Str(<<"SELECT", "SP", "1">>), 1, <<>>)}
    ELSE {Event("POST", <<"query">>, TRUE, Str(<<"SELECT", "SP", "1">>), 1, <<>>),
          Event("POST", <<"query", "gpa_by_platform">>, TRUE, NoValue, 1, <<>>),
          Event("POST", <<"batch">>, TRUE, NoValue, 1,
                <<[type |-> "gpa_by_platform", query |-> NoValue]>>)}

\* two invocations of one handler were received and none has begun
InitConcurrent ==
    /\ variant \in {"index", "athena", "enhanced"}
    /\ event \in ConcurrentEvents(variant)
    /\ pc = "start"
    /\ max_wait_time = 0
    /\ itemIdx = 0
    /\ cur = NewLog(NoValue)
    /\ now = 0
    /\ poll_interval = 0
    /\ itemLog = <<>>
    /\ results = <<>>
    /\ resp = NoResponse
    /\ answers = <<>>
    /\ module = Imported
    /\ issued = 0
    /\ \E e \in ConcurrentEvents(variant) :
           suspended = <<[Context EXCEPT !.event = e]>>

NextConcurrent ==
    \/ Next
    \/ switch

Concurrent == InitConcurrent /\ [][NextConcurrent]_vars
(***************************************************************************)
(* Properties.                                                             *)
(***************************************************************************)
\* the invocation answered a single query (no batch) and returned
SingleDone == pc = "done" /\ itemIdx = 0

\* a lifecycle has just ended and cur is its record
LifecycleOver == pc \in {"done", "batch"}

\* the denylist of the validator: the ten patterns, case-insensitive
MatchesDenylist(q) == q.kind = "str" /\ DangerousEnhanced(q.toks)

\* C1: a query text that matches a denylist pattern is never passed to
\* start-execution, by any handler, route or batch item, and its request
\* or item is reported as a validation failure.
C1_DenylistedNeverSubmitted ==
    /\ MatchesDenylist(cur.text) => cur.starts = 0
    /\ \A k \in DOMAIN itemLog :
          MatchesDenylist(itemLog[k].text) =>
              itemLog[k].starts = 0 /\ itemLog[k].exc = "ValueError"
    /\ (SingleDone /\ MatchesDenylist(cur.text)) => resp.statusCode = 400

\* C2: results are fetched if and only if the poller observed SUCCEEDED,
\* and the outcome has no rows when the final state is not SUCCEEDED.
C2_FetchIffSucceeded ==
    /\ cur.fetches > 0 => cur.obs = "SUCCEEDED"
    /\ (LifecycleOver /\ cur.obs = "SUCCEEDED") => cur.fetches = 1
    /\ \A k \in DOMAIN itemLog :
          itemLog[k].fetches > 0 <=> itemLog[k].obs = "SUCCEEDED"
    /\ (SingleDone /\ cur.obs # "SUCCEEDED") => resp.rows = NoRows
    /\ \A k \in DOMAIN results :
          itemLog[k].obs # "SUCCEEDED" => results[k].rows = NoRows

\* C2 witness: a query ended SUCCEEDED, its results fetched once, rows
\* returned.
C2_Witness ==
    /\ SingleDone
    /\ cur.obs = "SUCCEEDED"
    /\ cur.fetches = 1
    /\ resp.statusCode = 200
    /\ resp.rows # NoRows

\* C3: in each poller variant the poller stops no later than the deadline
\* plus the latency of one status check: no sleep ends after the deadline.
C3_StopsWithinDeadline ==
    cur.stopAt >= 0 =>
        cur.stopAt <= max_wait_time * TicksPerSecond + cur.lastLatency

\* the n-th sleep of the sequence 1, 1.5, 2.25, 3.375, 5, 5, ... (ticks)
RECURSIVE ClaimedSleep(_)
ClaimedSleep(n) ==
    IF n = 1 THEN PollStartSeconds * TicksPerSecond
    ELSE Min((ClaimedSleep(n - 1) * 3) \div 2, PollCapSeconds * TicksPerSecond)

\* C4: the sleep after the n-th non-terminal observation is the n-th term
\* of 1, 1.5, 2.25, 3.375, 5, 5, ... seconds, unless it is clamped to the
\* remaining deadline.
C4_BackoffSequence ==
    pc = "sleep" =>
        \/ poll_interval = ClaimedSleep(cur.nonterm)
        \/ poll_interval = (max_wait_time - ElapsedSeconds(now)) * TicksPerSecond

\* C5: when the engine reports k non-terminal states and then SUCCEEDED
\* and no engine call fails, the invocation makes k + 1 status checks, one
\* results fetch, one start-execution call and returns 200 with SUCCEEDED.
C5_ChecksUntilSucceeded ==
    (SingleDone /\ cur.obs = "SUCCEEDED" /\ cur.err = "none") =>
        /\ cur.checks = cur.nonterm + 1
        /\ cur.fetches = 1
        /\ cur.starts = 1
        /\ resp.statusCode = 200
        /\ resp.state = "SUCCEEDED"

\* C5 witness: Running once, then SUCCEEDED: 2 status checks, 200.
C5_Witness ==
    /\ SingleDone
    /\ variant = "enhanced"
    /\ cur.obs = "SUCCEEDED"
    /\ cur.nonterm = 1
    /\ cur.checks = 2
    /\ cur.sleeps = 1
    /\ resp.statusCode = 200

\* C6: when the engine reports no terminal state within the deadline, the
\* invocation ends with 408 Query timeout and no results fetch, whatever
\* the latency of the status checks.
C6_NeverTerminalIs408 ==
    (SingleDone /\ cur.obs \in {"QUEUED", "RUNNING"} /\ cur.err = "none") =>
        /\ resp.statusCode = 408
        /\ resp.error = "Query timeout"
        /\ cur.fetches = 0

\* the request asks for a query: every request of index.py and
\* athena_query.py; POST /query, /query/{name} and /batch of
\* lambda_enhanced.py
IsQueryRequest ==
    /\ event.json
    /\ \/ variant # "enhanced"
       \/ /\ event.method = "POST"
          /\ \/ PathIs(event.path, "query")
             \/ PathIs(event.path, "batch")
             \/ PathQueryType(event.path) # ""

\* no engine call was made by the invocation
NoEngineCall ==
    /\ cur.starts = 0 /\ cur.checks = 0 /\ cur.fetches = 0
    /\ \A k \in DOMAIN itemLog : itemLog[k].starts = 0

\* C7: a query request whose maxWaitTime is outside 1..900 makes no engine
\* call and is answered with status 400.
C7_BadWaitTimeIs400 ==
    (IsQueryRequest /\ BadWaitTime(event.maxWaitTime)) =>
        /\ NoEngineCall
        /\ pc = "done" => resp.statusCode = 400

\* the request is a batch: POST /batch of lambda_enhanced.py with a JSON body
BatchRequest ==
    /\ variant = "enhanced"
    /\ event.json
    /\ event.method = "POST"
    /\ PathIs(event.path, "batch")

\* the batch route ran handle_batch_queries on the request's items
BatchRan ==
    /\ BatchRequest
    /\ ~BadWaitTime(event.maxWaitTime)
    /\ event.queries # <<>>

\* item q of a batch, evaluated alone, reaches start-execution
ItemRuns(q) ==
    IF q.type # "" THEN q.type \in TemplateNames
    ELSE Truthy(q.query) /\ validate_query(q.query)

\* the text item q of a batch submits
ItemText(q) == IF q.type # "" THEN QUERY_TEMPLATES(q.type) ELSE q.query

\* the entries of a batch: entry k tagged k in request order, an item
\* submitted exactly when it would be alone, a failing item a failed entry,
\* and the response 200 with one entry per item
BatchEntries ==
    /\ Len(results) <= Len(event.queries)
    /\ Len(itemLog) = Len(results)
    /\ \A k \in DOMAIN results :
          /\ results[k].index = k
          /\ itemLog[k].starts = (IF ItemRuns(event.queries[k]) THEN 1 ELSE 0)
          /\ itemLog[k].starts = 1 => itemLog[k].text = ItemText(event.queries[k])
          /\ (itemLog[k].starts = 0 \/ itemLog[k].exc # "none")
                => (~results[k].success /\ results[k].error)
    /\ pc = "done" =>
          /\ resp.statusCode = 200
          /\ resp.results = results
          /\ Len(resp.results) = Len(event.queries)

CountItems(P(_)) == Cardinality({k \in DOMAIN itemLog : P(itemLog[k])})

ReachedSucceeded(l) == l.obs = "SUCCEEDED"

SucceededAndFetched(l) == l.obs = "SUCCEEDED" /\ l.err = "none"

\* C9 as stated: successfulQueries counts the entries whose sub-query
\* reached SUCCEEDED, totalQueries the items, and an entry is a success if
\* and only if its sub-query reached SUCCEEDED.
C9_SuccessIffReachedSucceeded ==
    (BatchRan /\ pc = "done") =>
        /\ resp.successfulQueries = CountItems(ReachedSucceeded)
        /\ resp.totalQueries = Len(event.queries)
        /\ \A k \in DOMAIN resp.results :
              resp.results[k].success <=> ReachedSucceeded(itemLog[k])

\* C9 amended: successfulQueries counts the entries whose sub-query reached
\* SUCCEEDED and whose results fetch returned, totalQueries the items, and
\* an entry is a success if and only if its sub-query reached SUCCEEDED and
\* its results were fetched, which is when the entry's state is SUCCEEDED.
C9_SuccessIffSucceededAndFetched ==
    (BatchRan /\ pc = "done") =>
        /\ resp.successfulQueries = CountItems(SucceededAndFetched)
        /\ resp.totalQueries = Len(event.queries)
        /\ \A k \in DOMAIN resp.results :
              /\ resp.results[k].success <=> SucceededAndFetched(itemLog[k])
              /\ resp.results[k].success <=> resp.results[k].state = "SUCCEEDED"

\* C9 witness: a batch response that counts one success among two entries,
\* the other a sub-query that reached FAILED.
C9_Witness ==
    /\ BatchRan
    /\ pc = "done"
    /\ resp.totalQueries = 2
    /\ resp.successfulQueries = 1
    /\ \E k \in DOMAIN itemLog : itemLog[k].obs = "FAILED"

\* the status the error taxonomy gives an engine error
TaxonomyStatus(code) ==
    CASE code = "AccessDeniedException" -> 403
      [] code = "ThrottlingException" -> 429
      [] code = "InternalServerException" -> 503
      [] OTHER -> 0

\* C10: when an engine call fails with an access-denied, throttling or
\* engine-internal error, the response status is 403, 429 or 503, in every
\* handler.
C10_EngineErrorStatus ==
    (SingleDone /\ TaxonomyStatus(cur.err) # 0) =>
        resp.statusCode = TaxonomyStatus(cur.err)

\* the responses that report an execution failure
ExecutionFailures == {"Query execution failed", "Query was cancelled"}

\* C11: when the engine reports FAILED or CANCELLED the response is 400,
\* reports an execution failure and carries the engine's reason whenever
\* the engine supplied one, for CANCELLED as for FAILED; the query was
\* started once.
C11_FailureCarriesReason ==
    (SingleDone /\ cur.obs \in {"FAILED", "CANCELLED"}) =>
        /\ resp.statusCode = 400
        /\ resp.error \in ExecutionFailures
        /\ cur.reason # "" => resp.message = cur.reason
        /\ cur.starts = 1

\* the request passed the parsing and the deadline validation of
\* lambda_enhanced.py's lambda_handler
Routed ==
    /\ variant = "enhanced"
    /\ event.json
    /\ ~BadWaitTime(event.maxWaitTime)

\* C12: POST /query/{templateName} with a name that is no key of the
\* template catalog is answered with 404 and makes no engine call.
C12_UnknownTemplateIs404 ==
    (/\ Routed
     /\ event.method = "POST"
     /\ PathQueryType(event.path) \notin TemplateNames \cup {""}) =>
        /\ NoEngineCall
        /\ pc = "done" => resp.statusCode = 404

\* (method, path) is one of GET /health, GET /queries, POST /query,
\* POST /query/{templateName}, POST /batch
KnownRoute(m, path) ==
    \/ m = "GET" /\ PathIs(path, "health")
    \/ m = "GET" /\ PathIs(path, "queries")
    \/ m = "POST" /\ PathIs(path, "query")
    \/ m = "POST" /\ PathQueryType(path) # ""
    \/ m = "POST" /\ PathIs(path, "batch")

\* C13: a request whose (method, path) is not one of the five routes is
\* answered with the 404 route listing and makes no engine call; no other
\* method on /query/{templateName} executes a template.
C13_UnknownRouteIs404 ==
    (Routed /\ ~KnownRoute(event.method, event.path)) =>
        /\ NoEngineCall
        /\ pc = "done" => (resp.statusCode = 404 /\ resp.kind = "notfound")

\* the validation the text of a lifecycle has to pass: the validator of the
\* orchestrator; index.py's handler hands over validated text only
Validated(v, q) ==
    CASE v = "index" -> q.kind = "str"
      [] v = "athena" -> validate_query_athena(q)
      [] OTHER -> validate_query(q)

\* C14: start-execution is called exactly once after validation passes and
\* never more than once: no error of the start, of a status check, of the
\* poll outcome or of the results fetch brings a second call, and an error
\* of the start is returned with no further engine call.
C14_StartedExactlyOnce ==
    /\ cur.starts <= 1
    /\ pc \in {"poll", "sleep", "polled"} => cur.starts = 1
    /\ \A k \in DOMAIN itemLog :
          /\ itemLog[k].starts = (IF Validated(variant, itemLog[k].text) THEN 1 ELSE 0)
          /\ itemLog[k].errOp = "start" => itemLog[k].fetches = 0
    /\ (LifecycleOver /\ cur.errOp = "start") =>
          /\ cur.checks = 0
          /\ cur.exc # "none"
    /\ (SingleDone /\ cur.errOp = "start") => resp.kind = "error"

\* C14 witness: the results fetch of a started query raised, the
\* invocation ended and start-execution was called once.
C14_Witness ==
    /\ SingleDone
    /\ cur.errOp = "fetch"
    /\ cur.checks >= 2
    /\ cur.starts = 1

\* a single query returned an outcome with the rows of a fetched page
RowsReturned ==
    /\ SingleDone
    /\ resp.statusCode = 200
    /\ cur.page.fetched

\* the raw rows of the fetched page but the header row
RawRows == DataRows(cur.page.rows)

\* the returned value out is the raw value, up to the coercion of values
SameValue(out, raw) ==
    IF raw.null THEN out.null \/ out.s = <<>>
    ELSE ~out.null /\ Strip(out.s) = Strip(raw.s)

\* the page with header row [H1, H2] and data rows [[a, b], [c, d]]
TwoByTwo ==
    [cols |-> <<"H1", "H2">>,
     rows |-> << <<Cell(<<"H1">>), Cell(<<"H2">>)>>,
                 <<Cell(<<"a">>), Cell(<<"b">>)>>,
                 <<Cell(<<"c">>), Cell(<<"d">>)>> >>,
     fetched |-> TRUE]

\* C15: the outcome has one row per raw row but the header, in order, each
\* column name mapped to the value at its position; for header [H1, H2] and
\* data [[a, b], [c, d]] the rows are [{H1: a, H2: b}, {H1: c, H2: d}] and
\* rowCount is 2.
C15_RowsKeyedByColumnName ==
    RowsReturned =>
        /\ Len(resp.rows) = Len(RawRows)
        /\ resp.rowCount = Len(RawRows)
        /\ \A k \in DOMAIN resp.rows :
              \A i \in 1..Min(Len(RawRows[k]), Len(cur.page.cols)) :
                  /\ cur.page.cols[i] \in DOMAIN resp.rows[k]
                  /\ SameValue(resp.rows[k][cur.page.cols[i]], RawRows[k][i])
        /\ cur.page = TwoByTwo =>
              resp.rows = << ("H1" :> Cell(<<"a">>)) @@ ("H2" :> Cell(<<"b">>)),
                             ("H1" :> Cell(<<"c">>)) @@ ("H2" :> Cell(<<"d">>)) >>

\* C16: a raw row with fewer values than there are columns yields a row
\* that holds every column name, the columns without a value mapped to
\* null: raw row [a] against [H1, H2] yields {H1: a, H2: null}.
C16_ShortRowPaddedWithNull ==
    RowsReturned =>
        \A k \in DOMAIN resp.rows :
            \A i \in 1..Len(cur.page.cols) :
                /\ cur.page.cols[i] \in DOMAIN resp.rows[k]
                /\ (k <= Len(RawRows) /\ i > Len(RawRows[k]))
                      => resp.rows[k][cur.page.cols[i]].null

\* the status codes of the response envelope
StatusCodes == {200, 400, 403, 404, 408, 429, 500, 503}

TimedOut(l) == l.exc = "TimeoutError"

\* at its end a lifecycle that timed out has fetched nothing and, for a
\* single query, is answered with 408, which FAILED and CANCELLED never are
TimedOutEnd ==
    /\ (LifecycleOver /\ TimedOut(cur)) =>
          /\ cur.fetches = 0
          /\ ~cur.page.fetched
          /\ ~IsTerminal(cur.obs)
    /\ \A k \in DOMAIN itemLog : TimedOut(itemLog[k]) => itemLog[k].fetches = 0
    /\ (SingleDone /\ TimedOut(cur)) => resp.statusCode = 408
    /\ (SingleDone /\ cur.obs \in {"FAILED", "CANCELLED"}) => resp.statusCode = 400

\* after the timeout the record of the lifecycle never changes: no status
\* check, no fetch and no other call is made for its handle; cur is left
\* alone or taken by the fresh record of the next batch item
TimedOutStep ==
    /\ TimedOut(cur) => (cur' = cur \/ (cur'.handle = 0 /\ cur'.checks = 0))
    /\ \A k \in DOMAIN itemLog :
          k \in DOMAIN itemLog' /\ itemLog'[k] = itemLog[k]

\* C18: when the poller signals TimedOut the invocation makes no further
\* engine call for that execution handle (no cancel, no status check, no
\* results fetch), and the timeout is reported with 408, not with the 400
\* of FAILED and CANCELLED.
C18_NoCallAfterTimeout == []TimedOutEnd /\ [][TimedOutStep]_vars

\* C18 witness: a poller that made status checks and slept signalled
\* TimedOut and the handler answered 408.
C18_Witness ==
    /\ SingleDone
    /\ variant = "enhanced"
    /\ TimedOut(cur)
    /\ cur.checks >= 1
    /\ cur.sleeps >= 1
    /\ resp.statusCode = 408

\* the request is POST /query/{templateName} with a key of the catalog
TemplateRequest ==
    /\ Routed
    /\ event.method = "POST"
    /\ PathQueryType(event.path) \in TemplateNames

\* C19: POST /query/{templateName} with a known template submits exactly
\* the catalog's text for that name, whatever the body's query field holds;
\* the body's query is never submitted on that route.
C19_TemplateTextSubmitted ==
    TemplateRequest =>
        /\ pc # "start" =>
              /\ cur.text = QUERY_TEMPLATES(PathQueryType(event.path))
              /\ cur.text # event.query
        /\ \A k \in DOMAIN itemLog :
              /\ itemLog[k].text = QUERY_TEMPLATES(PathQueryType(event.path))
              /\ itemLog[k].starts = 1

\* C19 witness: a template request whose body carries a query of its own
\* was started and answered 200.
C19_Witness ==
    /\ TemplateRequest
    /\ Truthy(event.query)
    /\ SingleDone
    /\ cur.starts = 1
    /\ resp.statusCode = 200

\* a single query failed with an exception that is none of the classified
\* failures: an engine call raised something other than a ClientError
Unclassified == SingleDone /\ cur.err = "Internal"

\* C20: a failure that is not classified is answered 500 with a generic
\* message only: the body carries neither the text nor the type of the
\* exception, so that invocations that differ in them only get the same
\* body.
C20_GenericInternalError ==
    Unclassified =>
        /\ resp.statusCode = 500
        /\ resp.message = ""
        /\ resp.type = ""

\* the query is empty, is not a string, or is longer than 262144
BadQuery(q) ==
    \/ q.kind # "str"
    \/ q.toks = <<>>
    \/ TextLen(q.toks) > MaxQuerySize

\* the request asks for the query of its body: every request of index.py
\* and athena_query.py, POST /query of lambda_enhanced.py
CustomRequest ==
    /\ event.json
    /\ \/ variant # "enhanced"
       \/ event.method = "POST" /\ PathIs(event.path, "query")

\* C21: a query that is empty, is not a string or is longer than 262144 is
\* rejected with status 400 and never started, in every handler; a batch
\* item with such a query is recorded as failed.
C21_BadQueryIs400 ==
    /\ (CustomRequest /\ BadQuery(event.query)) =>
          /\ NoEngineCall
          /\ pc = "done" => resp.statusCode = 400
    /\ BatchRan =>
          \A k \in DOMAIN results :
              (event.queries[k].type = "" /\ BadQuery(event.queries[k].query)) =>
                  /\ itemLog[k].starts = 0
                  /\ ~results[k].success
                  /\ results[k].error

\* sequence a begins sequence b
IsPrefix(a, b) ==
    /\ Len(a) <= Len(b)
    /\ \A n \in DOMAIN a : a[n] = b[n]

\* the execution handles an invocation was issued
HandlesOf(log, c) ==
    ({log[n].handle : n \in DOMAIN log} \cup {c.handle}) \ {0}

\* responses r1 and r2 of lifecycles c1 and c2 with deadline d are the same
\* but for the handle each names: the messages are equal, or each is the
\* text of the TimeoutError with the lifecycle's own handle
SameResponse(r1, c1, r2, c2, d) ==
    /\ [r1 EXCEPT !.message = ""] = [r2 EXCEPT !.message = ""]
    /\ \/ r1.message = r2.message
       \/ /\ ElapsedSeconds(c1.stopAt) = ElapsedSeconds(c2.stopAt)
          /\ r1.message = TimeoutText(d, ElapsedSeconds(c1.stopAt), c1.handle)
          /\ r2.message = TimeoutText(d, ElapsedSeconds(c2.stopAt), c2.handle)

\* an invocation that received the event of an invocation that ended, and
\* from the engine at least the answers that one received, received no other
\* answer and returns the same response, the handle it was issued apart; the
\* handles of two invocations are distinct
OwnInputsOnly ==
    \A k \in DOMAIN suspended :
        LET o == suspended[k]
        IN  /\ HandlesOf(itemLog, cur) \cap HandlesOf(o.itemLog, o.cur) = {}
            /\ (/\ o.pc = "done"
                /\ o.variant = variant
                /\ o.event = event
                /\ IsPrefix(o.answers, answers)) =>
                   /\ answers = o.answers
                   /\ pc = "done" =>
                         SameResponse(resp, cur, o.resp, o.cur, max_wait_time)

\* C22: when invocations are interleaved in any order against the same
\* engine, no step of an invocation writes a module-level name
\* (configuration, template catalog), and the response of an invocation is
\* determined by its own event and the engine's answers to its own calls,
\* made with the handles it was issued itself.
C22_InvocationsShareNothing ==
    /\ []OwnInputsOnly
    /\ [][module' = module]_vars

\* two interleaved invocations of the same event were given different
\* handles and the same answers, and both returned 200
C22_Witness ==
    /\ suspended # <<>>
    /\ pc = "done"
    /\ suspended[1].pc = "done"
    /\ suspended[1].event = event
    /\ suspended[1].answers = answers
    /\ Len(answers) >= 3
    /\ resp.statusCode = 200
    /\ cur.handle # 0
    /\ suspended[1].cur.handle \notin {0, cur.handle}

\* the states that are not terminal
NonTerminal == EngineStates \ {"SUCCEEDED", "FAILED", "CANCELLED"}

\* the deadline of the poller, ticks
Deadline == max_wait_time * TicksPerSecond

\* the poller ended and its last status check returned a state that is not
\* terminal
EndedNonTerminal ==
    /\ LifecycleOver
    /\ cur.checks > 0
    /\ cur.obs \in NonTerminal
    /\ cur.err = "none"

\* C23: after a status check that returns a non-terminal state at or past
\* the deadline the poller does not sleep again (a sleep of no duration is
\* not counted) and raises TimeoutError, answered 408 with the elapsed
\* seconds and the execution handle in the message.
C23_LateCheckTimesOut ==
    /\ (pc = "sleep" /\ now >= Deadline) => poll_interval = 0
    /\ EndedNonTerminal =>
          /\ cur.exc = "TimeoutError"
          /\ SingleDone =>
                /\ resp.statusCode = 408
                /\ resp.message = TimeoutText(max_wait_time,
                                              ElapsedSeconds(cur.stopAt),
                                              cur.handle)

\* Succeeded, Failed and Cancelled
TerminalStates == {"SUCCEEDED", "FAILED", "CANCELLED"}

\* after a terminal state was observed the record of the lifecycle keeps its
\* status checks, its sleeps and the state, until the next lifecycle begins
TerminalStep ==
    cur.obs \in TerminalStates =>
        \/ /\ cur'.handle = cur.handle
           /\ cur'.checks = cur.checks
           /\ cur'.sleeps = cur.sleeps
           /\ cur'.obs = cur.obs
           /\ pc' \notin {"poll", "sleep"}
        \/ /\ cur'.handle = 0
           /\ cur'.checks = 0
           /\ cur'.obs = "none"

\* the state a lifecycle reports is the terminal state observed: in the
\* outcome returned, and a RuntimeError is raised for Failed and Cancelled
\* only
TerminalReported ==
    (LifecycleOver /\ cur.obs \in TerminalStates) =>
        /\ (cur.exc = "none" /\ itemIdx = 0) => resp.state = cur.obs
        /\ (cur.exc = "none" /\ itemIdx > 0) => results[itemIdx].state = cur.obs
        /\ cur.exc = "RuntimeError" => cur.obs \in {"FAILED", "CANCELLED"}
        /\ cur.exc \in {"none", "RuntimeError", "ClientError"}

\* C24: once a status check observed a terminal state for a handle, the
\* poller makes no further status check and no further sleep for it, and
\* the state reported is the one observed.
C24_TerminalEndsPolling ==
    /\ []TerminalReported
    /\ [][TerminalStep]_vars

\* a lifecycle ended whose second or later status check observed a terminal
\* state, after a sleep for each check before it
C24_Witness ==
    /\ LifecycleOver
    /\ cur.obs \in TerminalStates
    /\ cur.checks >= 2
    /\ cur.sleeps = cur.checks - 1
    /\ cur.nonterm = cur.checks - 1

\* the lifecycle under way failed: an engine call raised, or the validation
\* or the poller did
Failed(c) == c.exc # "none" \/ c.err # "none"

\* the engine calls made for the lifecycle under way are in order, and a
\* stage that failed was the last
EngineOrder ==
    /\ cur.starts <= 1
    /\ cur.fetches <= 1
    /\ cur.checks > 0 => (cur.starts = 1 /\ cur.handle # 0)
    /\ cur.fetches > 0 => (cur.checks > 0 /\ cur.obs = "SUCCEEDED")
    /\ cur.starts = 0 => (cur.checks = 0 /\ cur.fetches = 0)
    /\ cur.errOp = "start" => (cur.checks = 0 /\ cur.fetches = 0)
    /\ (\/ cur.errOp = "status"
        \/ cur.exc \in {"RuntimeError", "TimeoutError", "ValueError"}
        \/ cur.obs \in {"FAILED", "CANCELLED"}) => cur.fetches = 0
    /\ Failed(cur) => LifecycleOver

\* an engine call is made only after the stages before it and before the
\* stages after it, and none is made for a lifecycle that failed
EngineStep ==
    /\ cur'.starts > cur.starts =>
          (cur.starts = 0 /\ cur.checks = 0 /\ cur.fetches = 0 /\ ~Failed(cur))
    /\ cur'.checks > cur.checks =>
          (cur.starts = 1 /\ cur.fetches = 0 /\ ~Failed(cur))
    /\ cur'.fetches > cur.fetches =>
          (cur.starts = 1 /\ cur.checks > 0 /\ cur.fetches = 0 /\ ~Failed(cur))
    /\ Failed(cur) =>
          \/ cur' = cur
          \/ cur'.starts = 0 /\ cur'.checks = 0 /\ cur'.fetches = 0

\* C25: the engine calls of one query are made in the order start, status
\* checks, at most one results fetch; a failure at a stage prevents every
\* later stage, and no engine call is repeated because of a failure.
C25_StagesInOrder ==
    /\ []EngineOrder
    /\ [][EngineStep]_vars

\* a batch ended in which one lifecycle failed at its start and another went
\* through start, status checks and fetch
C25_Witness ==
    /\ BatchRan
    /\ pc = "done"
    /\ \E j, k \in DOMAIN itemLog :
          /\ itemLog[j].errOp = "start"
          /\ itemLog[j].fetches = 0
          /\ itemLog[k].starts = 1
          /\ itemLog[k].fetches = 1
          /\ itemLog[k].err = "none"

\* the handles of the lifecycles that ended before the one under way
EarlierHandles ==
    {itemLog[k].handle :
        k \in {n \in DOMAIN itemLog : ~LifecycleOver \/ n < Len(itemLog)}} \ {0}

\* C26: every status check and every results fetch of a query is made with
\* the handle that the query's own start call returned, and in a batch with
\* the handle of no other item.
C26_OwnHandleOnly ==
    /\ cur.asked \subseteq {cur.handle}
    /\ (cur.checks > 0 \/ cur.fetches > 0) => cur.asked = {cur.handle}
    /\ 0 \notin cur.asked
    /\ cur.asked \cap EarlierHandles = {}

\* the second item of a batch was polled and fetched with its own handle
\* after the first item had been given another
C26_Witness ==
    /\ BatchRan
    /\ Len(itemLog) = 2
    /\ itemLog[1].handle # 0
    /\ itemLog[1].fetches = 1
    /\ cur.handle \notin {0, itemLog[1].handle}
    /\ cur.checks >= 1
    /\ cur.fetches = 1
    /\ cur.asked = {cur.handle}

\* the coercion of a raw value: null stays null, a string loses the
\* whitespace around it and stays a string
Coerced(raw) == IF raw.null THEN None ELSE Cell(Strip(raw.s))

\* the value a returned row holds for column i: under the column's name, or
\* else under the key of its position
ColumnValue(row, cols, i) ==
    IF cols[i] \in DOMAIN row THEN row[cols[i]]
    ELSE IF ("col_" \o ToString(i - 1)) \in DOMAIN row
    THEN row["col_" \o ToString(i - 1)]
    ELSE None

\* C27: in the rows of the outcome that execute_query and
\* execute_athena_query return, every value is the coerced raw value: null
\* for null, and for a string the string without the whitespace around it
\* (the empty string for the empty string, never null).
C27_ValuesCoerced ==
    (RowsReturned /\ variant \in {"athena", "enhanced"}) =>
        \A k \in DOMAIN resp.rows :
            /\ \A n \in DOMAIN resp.rows[k] :
                  ~resp.rows[k][n].null => Strip(resp.rows[k][n].s) = resp.rows[k][n].s
            /\ \A i \in 1..Min(Len(RawRows[k]), Len(cur.page.cols)) :
                  ColumnValue(resp.rows[k], cur.page.cols, i) = Coerced(RawRows[k][i])

\* time.sleep was called with poll_interval: the sleep is about to begin, or
\* the call raised ValueError
SleepCalled ==
    \/ pc = "sleep"
    \/ cur.exc = "ValueError" /\ cur.checks > 0

\* C28: the duration the poller passes to sleep is never negative and never
\* above 5 seconds, whatever the deadline and the latency of the status
\* check.
C28_SleepDurationInRange ==
    SleepCalled =>
        /\ poll_interval >= 0
        /\ poll_interval <= PollCapSeconds * TicksPerSecond

\* C29: execute_query and execute_athena_query return an outcome only for
\* the state Succeeded: every 200 response to a single query, and every
\* successful entry of a batch, has state SUCCEEDED and the rows of a
\* fetch, and the orchestrator never gets a status other than SUCCEEDED
\* back from the poller (its branch with empty rows is not reached).
C29_OutcomeOnlyWhenSucceeded ==
    /\ (SingleDone /\ resp.statusCode = 200 /\ resp.kind = "query") =>
          /\ resp.state = "SUCCEEDED"
          /\ cur.obs = "SUCCEEDED"
          /\ cur.fetches = 1
    /\ \A k \in DOMAIN results :
          results[k].success =>
              /\ results[k].state = "SUCCEEDED"
              /\ itemLog[k].obs = "SUCCEEDED"
              /\ itemLog[k].fetches = 1
    /\ (variant # "index" /\ pc = "polled") => cur.obs = "SUCCEEDED"

\* execute_query returned an outcome for an execution the poller saw
\* running before it saw it succeeded
C29_Witness ==
    /\ SingleDone
    /\ variant = "enhanced"
    /\ resp.statusCode = 200
    /\ resp.kind = "query"
    /\ resp.state = "SUCCEEDED"
    /\ cur.nonterm >= 1
    /\ cur.fetches = 1

\* remaining = max_wait_time - int(elapsed) at time t, in ticks
RemainingTicks(t) == (max_wait_time - ElapsedSeconds(t)) * TicksPerSecond

\* a lifecycle that timed out slept after each of its status checks, the
\* last of which observed a state that is not terminal, and the TimeoutError
\* was raised where the last sleep ended
TimedOutAfterSleep ==
    (LifecycleOver /\ TimedOut(cur)) =>
        /\ cur.checks >= 1
        /\ cur.sleeps = cur.checks
        /\ cur.nonterm = cur.checks
        /\ cur.obs \in NonTerminal
        /\ cur.stopAt = now
        /\ cur.stopAt >= Deadline
        /\ SingleDone => resp.statusCode = 408

\* a sleep for the remaining time ends at or past the deadline, and the step
\* after a sleep that ended there is the TimeoutError and no status check
FinalSleepStep ==
    /\ (pc = "sleep" /\ poll_interval = RemainingTicks(now)) =>
          (pc' = "poll" /\ now' >= Deadline /\ cur'.checks = cur.checks)
    /\ (pc = "poll" /\ cur.sleeps >= 1 /\ now >= Deadline) =>
          (TimedOut(cur') /\ cur'.checks = cur.checks /\ cur'.sleeps = cur.sleeps)
    /\ (~TimedOut(cur) /\ TimedOut(cur')) => (pc = "poll" /\ cur.sleeps >= 1)

\* C30: the last action of the poller before it signals TimedOut is a
\* sleep, not a status check: after a sleep clamped to the remaining
\* deadline the loop exits without another status check, so whatever the
\* execution became during that sleep the lifecycle is reported TimedOut.
C30_SleepIsLastBeforeTimeout ==
    /\ []TimedOutAfterSleep
    /\ [][FinalSleepStep]_vars

\* a poller with the clamp timed out after a last sleep that was shorter
\* than the backed-off interval and lasted the remaining time
C30_Witness ==
    /\ SingleDone
    /\ variant \in {"athena", "enhanced"}
    /\ TimedOut(cur)
    /\ resp.statusCode = 408
    /\ cur.lastSleep > 0
    /\ cur.lastSleep < NextInterval(PollStartSeconds * TicksPerSecond)
    /\ cur.lastSleep = RemainingTicks(cur.stopAt - cur.lastSleep)

\* an invocation that can take a step takes one: the interpreter runs the
\* handler on, and every engine call and every sleep returns
FairSpec == Spec /\ WF_vars(Next)

\* the poller is running
Polling == pc \in {"poll", "sleep"}

\* the poller of the lifecycle under way has ended
PollerEnded ==
    /\ ~Polling
    /\ cur.starts = 1
    /\ cur.errOp # "start"
    /\ pc # "submit"

\* a poller that ended observed Succeeded, Failed or Cancelled, or signalled
\* TimedOut, or a status check raised the error of the engine call
EndsAsListed ==
    PollerEnded =>
        \/ cur.obs \in TerminalStates /\ cur.exc \in {"none", "RuntimeError", "ClientError"}
        \/ TimedOut(cur)
        \/ cur.errOp = "status" /\ cur.exc = "ClientError"

\* C31: for every deadline the poller terminates whatever the engine does,
\* in Succeeded, Failed, Cancelled, TimedOut or the error of an engine call,
\* and it signals TimedOut only after at least one status check.
C31_PollerTerminates ==
    /\ []EndsAsListed
    /\ [](TimedOut(cur) => cur.checks >= 1)
    /\ (Polling ~> ~Polling)

\* the termination alone: a poller that runs stops
PollerStops == Polling ~> ~Polling

\* a text with nothing left once the surrounding whitespace is removed
WhitespaceOnly(q) == q.kind = "str" /\ Strip(q.toks) = <<>>

\* C32: no text that is empty after removing the surrounding whitespace is
\* passed to start-execution, by any handler, on the custom-query route or
\* in a batch item.
C32_NoBlankTextStarted == cur.starts >= 1 => ~WhitespaceOnly(cur.text)

\* the step that enters the poller of a batch item
ItemPollStart == BatchRequest /\ pc = "submit" /\ pc' = "poll"

\* C33: in a batch the deadline clock restarts for each item: every item is
\* polled from elapsed time zero against the whole maxWaitTime of the
\* request, and an item times out only after a status check of its own and
\* a whole deadline of its own, however long the items before it took.
C33_ClockRestartsPerItem ==
    /\ [](BatchRequest /\ TimedOut(cur) =>
            /\ cur.checks >= 1
            /\ cur.stopAt >= Deadline
            /\ max_wait_time = event.maxWaitTime)
    /\ [][ItemPollStart =>
            /\ now' = 0
            /\ poll_interval' = PollStartSeconds * TicksPerSecond
            /\ max_wait_time' = event.maxWaitTime]_vars

\* the second item of a batch times out after a status check of its own
\* although the first item used up a whole deadline: the batch ran for
\* twice maxWaitTime
C33_Witness ==
    /\ BatchRequest
    /\ Len(itemLog) = 1
    /\ TimedOut(itemLog[1])
    /\ TimedOut(cur)
    /\ cur.checks >= 1
    /\ cur.stopAt >= Deadline

\* lambda_enhanced.py answered a request whose body parsed
EnhancedAnswered == variant = "enhanced" /\ pc = "done" /\ event.json

\* the request is the health check
HealthCheck == event.method = "GET" /\ PathIs(event.path, "health")

\* C34: the deadline is validated before any route is matched, the health
\* check excepted: a maxWaitTime outside 1..900 is answered 400 on every
\* other route, GET /queries and unmatched routes included, with no engine
\* call, and GET /health is answered 200 whatever maxWaitTime is.
C34_DeadlineBeforeRoutes ==
    EnhancedAnswered =>
        /\ HealthCheck => resp.statusCode = 200 /\ resp.kind = "health"
        /\ (~HealthCheck /\ BadWaitTime(event.maxWaitTime)) =>
              /\ resp.statusCode = 400
              /\ resp.kind = "error"
              /\ cur.starts = 0
              /\ itemLog = <<>>

\* GET /queries with a maxWaitTime of 0 was answered 400
C34_Witness ==
    /\ EnhancedAnswered
    /\ event.method = "GET"
    /\ PathIs(event.path, "queries")
    /\ BadWaitTime(event.maxWaitTime)
    /\ resp.statusCode = 400

\* GET /queries was answered with the listing
Listed == variant = "enhanced" /\ pc = "done" /\ resp.kind = "queries"

\* the places (category, position) at which the category lists hold a name
PlacesOf(cats, name) ==
    {p \in UNION {{<<c, i>> : i \in DOMAIN cats[c]} : c \in DOMAIN cats} :
        cats[p[1]][p[2]] = name}

\* the names that the category lists hold
Categorized(cats) ==
    UNION {{cats[c][i] : i \in DOMAIN cats[c]} : c \in DOMAIN cats}

\* C35: the names advertised by GET /queries are consistent with the
\* catalog: queryTypes is the set of the catalog's keys, every key stands in
\* exactly one category, every categorized name is a key, and so the
\* template route finds every advertised name in the catalog.
C35_ListingMatchesCatalog ==
    Listed =>
        /\ resp.statusCode = 200
        /\ resp.queryTypes = TemplateNames
        /\ resp.queryTypes = module.QUERY_TEMPLATES
        /\ \A name \in TemplateNames :
              Cardinality(PlacesOf(resp.categories, name)) = 1
        /\ Categorized(resp.categories) \subseteq TemplateNames
        /\ \A name \in resp.queryTypes \cup Categorized(resp.categories) :
              /\ name \in module.QUERY_TEMPLATES
              /\ QUERY_TEMPLATES(name).kind = "str"

\* GET /queries was answered and the listing names the twelve templates in
\* five categories
C35_Witness ==
    /\ Listed
    /\ Cardinality(resp.queryTypes) = 12
    /\ Cardinality(DOMAIN resp.categories) = 5
    /\ Cardinality(Categorized(resp.categories)) = 12

=============================================================================
